---- MODULE Spec2Model ----
(***************************************************************************)
(* TribalEYE claim-upload service (src/app.py): the heuristic key/value    *)
(* extractor parse_key_values, the text extraction step in front of it and *)
(* the CSV store behind it.                                                *)
(*                                                                         *)
(* A Python str is a sequence of one-character strings; a dict is the      *)
(* sequence of its [k, v] items in insertion order.                        *)
(***************************************************************************)
EXTENDS Integers, Sequences, FiniteSets, TLC

(***************************************************************************)
(* Bounds of the explored inputs.                                          *)
(***************************************************************************)
\* longest document of the free family (raw lines drawn from BaseLines)
MaxLines == 3
\* most filler lines (blank or over-long) between a heading and its tail
MaxPad == 6
\* number of /upload requests the server handles, possibly concurrently
MaxUploads == 2

(***************************************************************************)
(* Numbers of the program.                                                 *)
(***************************************************************************)
\* kv_re: {2,80}
KEY_MIN == 2
KEY_MAX == 80
\* len(ln) > 3, len(ln) < 120
HEADING_MIN == 3
HEADING_MAX == 120
\* range(i+1, min(i+6, len(lines))): five candidates
LOOKAHEAD == 5
\* len(cand) < 200
CAND_MAX == 200
\* lines[:200]
MISC_LIMIT == 200

(***************************************************************************)
(* Characters.                                                             *)
(***************************************************************************)
UpperChars ==
    <<"A", "B", "C", "D", "E", "F", "G", "H", "I", "J", "K", "L", "M",
      "N", "O", "P", "Q", "R", "S", "T", "U", "V", "W", "X", "Y", "Z">>

LowerChars ==
    <<"a", "b", "c", "d", "e", "f", "g", "h", "i", "j", "k", "l", "m",
      "n", "o", "p", "q", "r", "s", "t", "u", "v", "w", "x", "y", "z">>

Digits ==
    {"0", "1", "2", "3", "4", "5", "6", "7", "8", "9"}

Range(s) ==
    {s[k] : k \in DOMAIN s}

Letters ==
    Range(UpperChars) \cup Range(LowerChars)

\* str.strip() and the regex class \s
Whitespace ==
    {" ", "\t", "\n", "\r"}

\* str.splitlines() boundaries ("\r\n" counts as two here: the empty line
\* it adds is dropped by the filter of line 67)
LineBreaks ==
    {"\n", "\r"}

\* the regex class \w
WordChars ==
    Letters \cup Digits \cup {"_"}

\* kv_re: [A-Za-z0-9\s\/\-\(\)\.]
KeyClass ==
    Letters \cup Digits \cup Whitespace \cup {"/", "-", "(", ")", "."}

\* kv_re: [:\-]
Separators ==
    {":", "-"}

Min(a, b) ==
    IF a <= b THEN a ELSE b

SetMin(S) ==
    CHOOSE x \in S : \A y \in S : x <= y

SetMax(S) ==
    CHOOSE x \in S : \A y \in S : y <= x

\* the lower-case letter of each upper-case letter
LowerOf ==
    [c \in Range(UpperChars) |->
        LowerChars[CHOOSE k \in DOMAIN UpperChars : UpperChars[k] = c]]

\* c.lower()
LowerChar(c) ==
    IF c \in DOMAIN LowerOf THEN LowerOf[c] ELSE c

\* s.lower()
Lower(s) ==
    [k \in 1..Len(s) |-> LowerChar(s[k])]

\* s.strip()
Strip(s) ==
    LET solid == {k \in 1..Len(s) : s[k] \notin Whitespace}
    IN  IF solid = {} THEN <<>> ELSE SubSeq(s, SetMin(solid), SetMax(solid))

\* sub in s
Contains(s, sub) ==
    \E p \in 1..(Len(s) - Len(sub) + 1) :
        \A q \in 1..Len(sub) : s[p + q - 1] = sub[q]

\* text.splitlines(): the pieces between line breaks; no piece after a
\* final break, none for the empty text
splitlines(t) ==
    LET starts == {p \in 1..Len(t) : p = 1 \/ t[p - 1] \in LineBreaks}
        stop(s) == LET bs == {p \in s..Len(t) : t[p] \in LineBreaks}
                   IN  IF bs = {} THEN Len(t) ELSE SetMin(bs) - 1
        nth(k)  == CHOOSE s \in starts : Cardinality({x \in starts : x < s}) = k - 1
    IN  [k \in 1..Cardinality(starts) |-> SubSeq(t, nth(k), stop(nth(k)))]

\* [l.strip() for l in text.splitlines() if l.strip()]
StripLines(raw) ==
    LET keep == {k \in 1..Len(raw) : Strip(raw[k]) # <<>>}
        nth(k) == CHOOSE s \in keep : Cardinality({x \in keep : x < s}) = k - 1
    IN  [k \in 1..Cardinality(keep) |-> Strip(raw[nth(k)])]

\* '\n'.join(parts), '; '.join(parts)
RECURSIVE join(_, _)
join(sep, parts) ==
    IF parts = <<>> THEN <<>>
    ELSE IF Len(parts) = 1 THEN parts[1]
    ELSE parts[1] \o sep \o join(sep, Tail(parts))

(***************************************************************************)
(* dict, in insertion order.                                               *)
(***************************************************************************)
DictKeys(d) ==
    {d[n].k : n \in DOMAIN d}

DictGet(d, key) ==
    d[CHOOSE n \in DOMAIN d : d[n].k = key].v

\* d[key] = val: an existing key keeps its place and takes the new value
DictSet(d, key, val) ==
    IF key \in DictKeys(d)
    THEN [n \in DOMAIN d |-> IF d[n].k = key THEN [k |-> key, v |-> val] ELSE d[n]]
    ELSE Append(d, [k |-> key, v |-> val])

(***************************************************************************)
(* parse_key_values, pass 1: kv_re.                                        *)
(***************************************************************************)
\* first position >= p of a character that is not whitespace (Len+1: none)
NextSolid(ln, p) ==
    SetMin({q \in p..Len(ln) : ln[q] \notin Whitespace} \cup {Len(ln) + 1})

\* kv_re_lengths with the quantifier {2,81}
kv_re_lengths_wide(ln, lead) ==
    LET classEnd == SetMin({q \in (lead + 1)..Len(ln) : ln[q] \notin KeyClass}
                           \cup {Len(ln) + 1}) - 1
    IN  {n \in KEY_MIN..Min(KEY_MAX + 1, classEnd - lead) :
            LET p == NextSolid(ln, lead + n + 1)
            IN  /\ p < Len(ln)
                /\ ln[p] \in Separators}

\* kv_re with the leading \s* taking `lead` characters: the lengths n of
\* group 1 for which the rest of the pattern matches. Group 1 is n
\* characters of KeyClass, KEY_MIN <= n <= KEY_MAX; then \s* (greedy: a
\* whitespace character is no separator, so giving one back never helps),
\* one separator, and at least one more character for \s*(.+)$
kv_re_lengths(ln, lead) ==
    LET classEnd == SetMin({q \in (lead + 1)..Len(ln) : ln[q] \notin KeyClass}
                           \cup {Len(ln) + 1}) - 1
    IN  {n \in KEY_MIN..Min(KEY_MAX, classEnd - lead) :
            LET p == NextSolid(ln, lead + n + 1)
            IN  /\ p < Len(ln)
                /\ ln[p] \in Separators}

\* kv_re.match(ln), for a string without line breaks: the leading \s* is
\* greedy (the longest lead that lets the rest match), group 1 is lazy
\* (the shortest length), the second \s* is greedy and gives one character
\* back to (.+) only when the rest is all whitespace
kv_re(ln) ==
    LET leadMax == NextSolid(ln, 1) - 1
        leads   == {l \in 0..leadMax : kv_re_lengths(ln, l) # {}}
    IN  IF leads = {} THEN [ok |-> FALSE, g1 |-> <<>>, g2 |-> <<>>]
        ELSE LET lead == SetMax(leads)
                 n    == SetMin(kv_re_lengths(ln, lead))
                 p    == NextSolid(ln, lead + n + 1)
                 q    == Min(NextSolid(ln, p + 1), Len(ln))
             IN  [ok |-> TRUE,
                  g1 |-> SubSeq(ln, lead + 1, lead + n),
                  g2 |-> SubSeq(ln, q, Len(ln))]

\* pass1_store as pairs.setdefault(k, v): the first value stays
pass1_store_first(d, key, val) ==
    IF key \in DictKeys(d) THEN d ELSE Append(d, [k |-> key, v |-> val])

\* pairs[k] = v of pass 1
pass1_store(d, key, val) ==
    DictSet(d, key, val)

\* the body of "for ln in lines" of pass 1
pass1_line(d, ln) ==
    LET m == kv_re(ln)
    IN  IF m.ok THEN pass1_store(d, Strip(m.g1), Strip(m.g2)) ELSE d

(***************************************************************************)
(* parse_key_values, pass 2: headings and the lines after them.            *)
(***************************************************************************)
H_name_of_the_claimant ==
    <<"n", "a", "m", "e", " ", "o", "f", " ", "t", "h", "e", " ", "c", "l",
      "a", "i", "m", "a", "n", "t">>

\* "name of the claimant(s)"
H_name_of_the_claimant_s ==
    <<"n", "a", "m", "e", " ", "o", "f", " ", "t", "h", "e", " ", "c", "l",
      "a", "i", "m", "a", "n", "t", "(", "s", ")">>

\* "name of the spouse"
H_name_of_the_spouse ==
    <<"n", "a", "m", "e", " ", "o", "f", " ", "t", "h", "e", " ", "s", "p",
      "o", "u", "s", "e">>

\* "name of father"
H_name_of_father ==
    <<"n", "a", "m", "e", " ", "o", "f", " ", "f", "a", "t", "h", "e", "r">>

\* "address"
H_address ==
    <<"a", "d", "d", "r", "e", "s", "s">>

\* "village"
H_village ==
    <<"v", "i", "l", "l", "a", "g", "e">>

\* "gram panchayat"
H_gram_panchayat ==
    <<"g", "r", "a", "m", " ", "p", "a", "n", "c", "h", "a", "y", "a", "t">>

\* "tehsil"
H_tehsil ==
    <<"t", "e", "h", "s", "i", "l">>

\* "district"
H_district ==
    <<"d", "i", "s", "t", "r", "i", "c", "t">>

\* "total area claimed"
H_total_area_claimed ==
    <<"t", "o", "t", "a", "l", " ", "a", "r", "e", "a", " ", "c", "l", "a",
      "i", "m", "e", "d">>

\* "survey numbers"
H_survey_numbers ==
    <<"s", "u", "r", "v", "e", "y", " ", "n", "u", "m", "b", "e", "r", "s">>

\* "gps coordinates"
H_gps_coordinates ==
    <<"g", "p", "s", " ", "c", "o", "o", "r", "d", "i", "n", "a", "t", "e",
      "s">>

\* "date of submission"
H_date_of_submission ==
    <<"d", "a", "t", "e", " ", "o", "f", " ", "s", "u", "b", "m", "i", "s",
      "s", "i", "o", "n">>

\* "tribe"
H_tribe ==
    <<"t", "r", "i", "b", "e">>

\* "family members"
H_family_members ==
    <<"f", "a", "m", "i", "l", "y", " ", "m", "e", "m", "b", "e", "r", "s">>

\* "signature"
H_signature ==
    <<"s", "i", "g", "n", "a", "t", "u", "r", "e">>

headings ==
    <<H_name_of_the_claimant, H_name_of_the_claimant_s, H_name_of_the_spouse,
      H_name_of_father, H_address, H_village, H_gram_panchayat, H_tehsil,
      H_district, H_total_area_claimed, H_survey_numbers, H_gps_coordinates,
      H_date_of_submission, H_tribe, H_family_members, H_signature>>

\* len(ln) < 120 and len(ln) > 3
heading_length_ok(ln) ==
    Len(ln) < HEADING_MAX /\ Len(ln) > HEADING_MIN

\* lookahead_stop with a window of six lines
lookahead_stop_six(ls, k) ==
    Min(k + LOOKAHEAD + 1, Len(ls))

\* lookahead_stop without min(..., len(lines))
lookahead_stop_unbounded(ls, k) ==
    k + LOOKAHEAD

\* the last index of range(i+1, min(i+6, len(lines))), lines counted from 1
lookahead_stop(ls, k) ==
    Min(k + LOOKAHEAD, Len(ls))

\* lookahead_accepts with len(cand) <= 200
lookahead_accepts_200(cand) ==
    Len(cand) > 0 /\ Len(cand) <= CAND_MAX

\* len(cand) > 0 and len(cand) < 200
lookahead_accepts(cand) ==
    Len(cand) > 0 /\ Len(cand) < CAND_MAX

\* heading_key as the matched heading instead of the line
heading_key_phrase(ln, h) ==
    h

\* the key of pairs[ln] = cand: the whole line, not the heading h
heading_key(ln, h) ==
    ln

\* pass2_store that leaves a key of pass 1 alone
pass2_store_keep(d, key, val) ==
    IF key \in DictKeys(d) THEN d ELSE Append(d, [k |-> key, v |-> val])

\* pairs[ln] = cand of pass 2
pass2_store(d, key, val) ==
    DictSet(d, key, val)

\* "for j in range(...)" from index j on, for heading h of line i: the
\* first accepted candidate is stored and ends the loop. lines[j] outside
\* the list raises IndexError
RECURSIVE lookahead(_, _, _, _, _)
lookahead(d, ls, k, h, j) ==
    IF j > lookahead_stop(ls, k) THEN [raised |-> FALSE, pairs |-> d]
    ELSE IF j \notin DOMAIN ls THEN [raised |-> TRUE, pairs |-> d]
    ELSE IF lookahead_accepts(ls[j])
         THEN [raised |-> FALSE,
               pairs  |-> pass2_store(d, heading_key(ls[k], h), ls[j])]
         ELSE lookahead(d, ls, k, h, j + 1)

\* "for h in headings" from heading number h on: every heading contained
\* in the lowered line runs the lookahead (the break of line 96 leaves the
\* inner loop only)
RECURSIVE heading_loop(_, _, _, _, _)
heading_loop(d, ls, k, lower, h) ==
    IF h > Len(headings) THEN [raised |-> FALSE, pairs |-> d]
    ELSE IF Contains(lower, headings[h])
         THEN LET r == lookahead(d, ls, k, headings[h], k + 1)
              IN  IF r.raised THEN r
                  ELSE heading_loop(r.pairs, ls, k, lower, h + 1)
         ELSE heading_loop(d, ls, k, lower, h + 1)

\* the body of "for i, ln in enumerate(lines)" of pass 2
pass2_line(d, ls, k) ==
    IF heading_length_ok(ls[k])
    THEN heading_loop(d, ls, k, Lower(ls[k]), 1)
    ELSE [raised |-> FALSE, pairs |-> d]

(***************************************************************************)
(* parse_key_values, pass 3: the keyword digest.                           *)
(***************************************************************************)
\* "age"
K_age ==
    <<"a", "g", "e">>

\* "hectares"
K_hectares ==
    <<"h", "e", "c", "t", "a", "r", "e", "s">>

\* "survey"
K_survey ==
    <<"s", "u", "r", "v", "e", "y">>

\* "total area"
K_total_area ==
    <<"t", "o", "t", "a", "l", " ", "a", "r", "e", "a">>

\* "gps"
K_gps ==
    <<"g", "p", "s">>

\* "date"
K_date ==
    <<"d", "a", "t", "e">>

\* "misc"
MiscKey ==
    <<"m", "i", "s", "c">>

\* "; "
MiscJoin ==
    <<";", " ">>

keywords ==
    {K_age, K_hectares, K_survey, K_total_area, K_gps, K_date}

\* re.search(r'\b(age|hectares|survey|total area|gps|date)\b', ln, re.I):
\* a keyword, in any case, with no word character right before or after
keyword_search(ln) ==
    \E kw \in keywords : \E p \in 1..(Len(ln) - Len(kw) + 1) :
        LET e == p + Len(kw) - 1
        IN  /\ \A q \in 1..Len(kw) : LowerChar(ln[p + q - 1]) = kw[q]
            /\ (p = 1 \/ ln[p - 1] \notin WordChars)
            /\ (e = Len(ln) \/ ln[e + 1] \notin WordChars)

\* pass3 without "if not pairs"
pass3_ungated(d, ls) ==
    LET misc_lines ==
            SelectSeq(SubSeq(ls, 1, Min(MISC_LIMIT, Len(ls))), keyword_search)
    IN  IF misc_lines # <<>>
        THEN DictSet(d, MiscKey, join(MiscJoin, misc_lines))
        ELSE d

\* "if not pairs: ..." (lines 99-105)
pass3(d, ls) ==
    IF d = <<>>
    THEN LET misc_lines ==
                 SelectSeq(SubSeq(ls, 1, Min(MISC_LIMIT, Len(ls))),
                           keyword_search)
         IN  IF misc_lines # <<>>
             THEN DictSet(d, MiscKey, join(MiscJoin, misc_lines))
             ELSE d
    ELSE d

(***************************************************************************)
(* parse_key_values as a whole (the call of line 178).                     *)
(***************************************************************************)
RECURSIVE pass1_from(_, _, _)
pass1_from(d, ls, k) ==
    IF k > Len(ls) THEN d
    ELSE pass1_from(pass1_line(d, ls[k]), ls, k + 1)

RECURSIVE pass2_from(_, _, _)
pass2_from(d, ls, k) ==
    IF k > Len(ls) THEN [raised |-> FALSE, pairs |-> d]
    ELSE LET r == pass2_line(d, ls, k)
         IN  IF r.raised THEN r ELSE pass2_from(r.pairs, ls, k + 1)

parse_key_values(t) ==
    LET ls == StripLines(splitlines(t))
        r     == pass2_from(pass1_from(<<>>, ls, 1), ls, 1)
    IN  IF r.raised THEN r
        ELSE [raised |-> FALSE, pairs |-> pass3(r.pairs, ls)]

(***************************************************************************)
(* The documents explored.                                                 *)
(***************************************************************************)
\* "Village: A"
LnVillageA ==
    <<"V", "i", "l", "l", "a", "g", "e", ":", " ", "A">>

\* "Village: B"
LnVillageB ==
    <<"V", "i", "l", "l", "a", "g", "e", ":", " ", "B">>

\* "Village"
LnVillage ==
    <<"V", "i", "l", "l", "a", "g", "e">>

\* "Name of the claimant(s)"
LnNameClaimant ==
    <<"N", "a", "m", "e", " ", "o", "f", " ", "t", "h", "e", " ", "c", "l",
      "a", "i", "m", "a", "n", "t", "(", "s", ")">>

\* "Ravi Kumar Bhuyan"
LnRavi ==
    <<"R", "a", "v", "i", " ", "K", "u", "m", "a", "r", " ", "B", "h", "u",
      "y", "a", "n">>

\* "other"
LnOther ==
    <<"o", "t", "h", "e", "r">>

\* "Total area claimed is 2.5 hectares"
LnTotalArea ==
    <<"T", "o", "t", "a", "l", " ", "a", "r", "e", "a", " ", "c", "l", "a",
      "i", "m", "e", "d", " ", "i", "s", " ", "2", ".", "5", " ", "h", "e",
      "c", "t", "a", "r", "e", "s">>

\* "Page 4 dated"
LnPage ==
    <<"P", "a", "g", "e", " ", "4", " ", "d", "a", "t", "e", "d">>

\* "  Age 40 "
LnAge ==
    <<" ", " ", "A", "g", "e", " ", "4", "0", " ">>

\* "B"
StrB ==
    <<"B">>

\* a line of n characters without separator, heading or keyword
Filler(n) ==
    [k \in 1..n |-> "x"]

\* a candidate line one character too long, and the longest accepted one
LnTooLong ==
    Filler(CAND_MAX)

LnLongest ==
    Filler(CAND_MAX - 1)

\* heading lines at the length limit: the longest accepted, and one more
LnVillageWide ==
    LnVillage \o Filler(HEADING_MAX - 1 - Len(LnVillage))

LnVillageTooWide ==
    LnVillage \o Filler(HEADING_MAX - Len(LnVillage))

BaseLines ==
    {<<>>, LnVillageA, LnVillageB, LnVillage, LnNameClaimant, LnRavi,
     LnTotalArea, LnPage, LnAge}

\* every document of at most MaxLines raw lines over BaseLines
FreeDocs ==
    UNION {[1..n -> BaseLines] : n \in 0..MaxLines}

Repeat(x, n) ==
    [k \in 1..n |-> x]

\* a heading line, then blank lines, then over-long lines, then a tail
PadDocs ==
    {<<h>> \o Repeat(<<>>, nb) \o Repeat(LnTooLong, nl) \o tail :
        h \in {LnVillage, LnTotalArea, LnNameClaimant, LnVillageWide,
               LnVillageTooWide},
        nb \in 0..MaxPad, nl \in 0..MaxPad,
        tail \in {<<>>, <<LnRavi>>, <<LnLongest>>, <<LnRavi, LnOther>>}}

\* key candidates of n characters for kv_re
KeyShapes(n) ==
    {Filler(n),
     [k \in 1..n |-> IF k = 3 THEN "-" ELSE "x"],
     [k \in 1..n |-> IF k = 2 THEN "-" ELSE "x"],
     [k \in 1..n |-> IF k = n THEN " " ELSE "x"],
     [k \in 1..n |-> IF k = n - 1 THEN " " ELSE "x"],
     [k \in 1..n |-> IF k = 1 THEN "(" ELSE IF k = n THEN ")" ELSE "9"]}

\* one line: a key candidate around the length limits, a separator and a
\* value (or none)
KeyDocs ==
    {<<key \o <<sep>> \o val>> :
        key \in UNION {KeyShapes(n) : n \in {1, KEY_MIN, KEY_MAX - 1, KEY_MAX,
                                           KEY_MAX + 1}},
        sep \in Separators,
        val \in {<<>>, <<"v">>, <<" ", "v">>}}

\* the documents as text: '\n' between the raw lines
Texts ==
    {join(<<"\n">>, doc) :
        doc \in FreeDocs \cup {d \in PadDocs : Len(d) <= MaxPad + 2} \cup KeyDocs}

(***************************************************************************)
(* The upload service around parse_key_values.                             *)
(***************************************************************************)
\* "Error extracting text: "
ErrPrefix ==
    <<"E", "r", "r", "o", "r", " ", "e", "x", "t", "r", "a", "c", "t", "i",
      "n", "g", " ", "t", "e", "x", "t", ":", " ">>

\* "pdfplumber not installed. Install with: pip install pdfplumber"
MsgNoPdfplumber ==
    <<"p", "d", "f", "p", "l", "u", "m", "b", "e", "r", " ", "n", "o", "t",
      " ", "i", "n", "s", "t", "a", "l", "l", "e", "d", ".", " ", "I", "n",
      "s", "t", "a", "l", "l", " ", "w", "i", "t", "h", ":", " ", "p", "i",
      "p", " ", "i", "n", "s", "t", "a", "l", "l", " ", "p", "d", "f", "p",
      "l", "u", "m", "b", "e", "r">>

\* "docx support needs python-docx. Install with: pip install python-docx"
MsgNoDocx ==
    <<"d", "o", "c", "x", " ", "s", "u", "p", "p", "o", "r", "t", " ", "n",
      "e", "e", "d", "s", " ", "p", "y", "t", "h", "o", "n", "-", "d", "o",
      "c", "x", ".", " ", "I", "n", "s", "t", "a", "l", "l", " ", "w", "i",
      "t", "h", ":", " ", "p", "i", "p", " ", "i", "n", "s", "t", "a", "l",
      "l", " ", "p", "y", "t", "h", "o", "n", "-", "d", "o", "c", "x">>

\* "No /Root object! - Is this really a PDF?"
MsgPdfSyntax ==
    <<"N", "o", " ", "/", "R", "o", "o", "t", " ", "o", "b", "j", "e", "c",
      "t", "!", " ", "-", " ", "I", "s", " ", "t", "h", "i", "s", " ", "r",
      "e", "a", "l", "l", "y", " ", "a", " ", "P", "D", "F", "?">>

\* "Error extracting text"
ErrKey ==
    <<"E", "r", "r", "o", "r", " ", "e", "x", "t", "r", "a", "c", "t", "i",
      "n", "g", " ", "t", "e", "x", "t">>

\* "pdf"
ExtPdf ==
    <<"p", "d", "f">>

\* "txt"
ExtTxt ==
    <<"t", "x", "t">>

\* "docx"
ExtDocx ==
    <<"d", "o", "c", "x">>

\* "Claim.TXT"
FnTxt ==
    <<"C", "l", "a", "i", "m", ".", "T", "X", "T">>

\* "claim.pdf"
FnPdf ==
    <<"c", "l", "a", "i", "m", ".", "p", "d", "f">>

\* "claim.docx"
FnDocx ==
    <<"c", "l", "a", "i", "m", ".", "d", "o", "c", "x">>

\* "claim.exe"
FnExe ==
    <<"c", "l", "a", "i", "m", ".", "e", "x", "e">>

\* ".."
FnDots ==
    <<".", ".">>

\* "claim"
FnBare ==
    <<"c", "l", "a", "i", "m">>

\* " Ravi "
ValName ==
    <<" ", "R", "a", "v", "i", " ">>

\* "GS1"
ValSabha ==
    <<"G", "S", "1">>

\* "IFR"
ValType ==
    <<"I", "F", "R">>

\* "claimant_name"
ColClaimantName ==
    <<"c", "l", "a", "i", "m", "a", "n", "t", "_", "n", "a", "m", "e">>

\* "gram_sabha_id"
ColGramSabhaId ==
    <<"g", "r", "a", "m", "_", "s", "a", "b", "h", "a", "_", "i", "d">>

\* "claim_type"
ColClaimType ==
    <<"c", "l", "a", "i", "m", "_", "t", "y", "p", "e">>

\* "parsed_pairs"
ColParsedPairs ==
    <<"p", "a", "r", "s", "e", "d", "_", "p", "a", "i", "r", "s">>

\* "filename"
ColFilename ==
    <<"f", "i", "l", "e", "n", "a", "m", "e">>


\* allowed_extensions
allowed_extensions ==
    {ExtPdf, ExtTxt, ExtDocx}

\* '.' in filename
HasDot(name) ==
    \E p \in DOMAIN name : name[p] = "."

\* filename.lower().split('.')[-1]: what follows the last '.', or all of it
last_piece(name) ==
    LET dots == {p \in DOMAIN name : name[p] = "."}
    IN  IF dots = {} THEN Lower(name)
        ELSE Lower(SubSeq(name, SetMax(dots) + 1, Len(name)))

\* filename.lower().split('.')[-1] if '.' in filename else ''
file_ext(name) ==
    IF HasDot(name) THEN last_piece(name) ELSE <<>>

\* werkzeug's secure_filename, for names without whitespace or path
\* separators: the characters outside [A-Za-z0-9_.-] are dropped, then
\* '.' and '_' are stripped from both ends
secure_filename(name) ==
    LET safe  == SelectSeq(name, LAMBDA c : c \in Letters \cup Digits \cup {"_", ".", "-"})
        solid == {p \in DOMAIN safe : safe[p] \notin {".", "_"}}
    IN  IF solid = {} THEN <<>> ELSE SubSeq(safe, SetMin(solid), SetMax(solid))

\* extract_text_from_file on the stored document `doc` ([ok, text]: whether
\* the PDF or docx library can read it, and the text it holds), with the
\* modules that could be imported. An exception ends in the except branch
\* of line 58: the error message becomes the text
extract_text_from_file(doc, filename, has_pdfplumber, has_docx) ==
    LET ext == last_piece(filename)
        error(msg) == [failed |-> TRUE, text |-> ErrPrefix \o msg]
        read == [failed |-> FALSE, text |-> doc.text]
    IN  IF ext = ExtPdf
        THEN IF ~has_pdfplumber THEN error(MsgNoPdfplumber)
             ELSE IF ~doc.ok THEN error(MsgPdfSyntax)
             ELSE read
        ELSE IF ext = ExtTxt THEN read
        ELSE IF ext = ExtDocx
        THEN IF ~has_docx \/ ~doc.ok THEN error(MsgNoDocx) ELSE read
        ELSE read

\* the header row and a data row of append_to_csv; the cell parsed_pairs
\* stands for str(parsed_pairs)
HeaderRow ==
    [header |-> TRUE,
     cells  |-> <<ColClaimantName, ColGramSabhaId, ColClaimType,
                  ColParsedPairs, ColFilename>>]

DataRow(form_fields, parsed_pairs) ==
    [header |-> FALSE,
     cells  |-> <<form_fields.claimant_name, form_fields.gram_sabha_id,
                  form_fields.claim_type, parsed_pairs, form_fields.filename>>]

\* the rows append_to_csv writes (lines 115-123)
rows_to_write(file_exists, form_fields, parsed_pairs) ==
    (IF ~file_exists THEN <<HeaderRow>> ELSE <<>>)
        \o <<DataRow(form_fields, parsed_pairs)>>

\* jsonify(success=..., ...), status
Response(success, status) ==
    [success |-> success, status |-> status]

\* the checks of lines 141-170 on a request: the response that ends it
\* there, or none
validate(r) ==
    IF r.method = "OPTIONS" THEN Response(TRUE, 200)
    ELSE IF Strip(r.claimant_name) = <<>> THEN Response(FALSE, 400)
    ELSE IF Strip(r.gram_sabha_id) = <<>> THEN Response(FALSE, 400)
    ELSE IF Strip(r.claim_type) = <<>> THEN Response(FALSE, 400)
    ELSE IF ~r.has_file \/ r.filename = <<>> THEN Response(FALSE, 400)
    ELSE IF secure_filename(r.filename) = <<>> THEN Response(FALSE, 400)
    ELSE IF file_ext(secure_filename(r.filename)) \notin allowed_extensions
         THEN Response(FALSE, 400)
    ELSE [success |-> TRUE, status |-> 0]

\* view_database (lines 206-220) on the CSV store
view_database(exists, rows) ==
    IF ~exists THEN [success |-> FALSE, status |-> 404, count |-> 0]
    ELSE IF Len(rows) <= 1 THEN [success |-> FALSE, status |-> 404, count |-> 0]
    ELSE [success |-> TRUE, status |-> 200,
          count |-> Cardinality({n \in 2..Len(rows) :
                                    Len(rows[n].cells) = Len(rows[1].cells)})]

(***************************************************************************)
(* The requests explored.                                                  *)
(***************************************************************************)
Document(ok, t) ==
    [ok |-> ok, text |-> t]

Request(method, name, sabha, type, has_file, filename, doc) ==
    [method |-> method, claimant_name |-> name, gram_sabha_id |-> sabha,
     claim_type |-> type, has_file |-> has_file, filename |-> filename,
     doc |-> doc]

GoodForm(has_file, filename, doc) ==
    Request("POST", ValName, ValSabha, ValType, has_file, filename, doc)

Requests ==
    {GoodForm(TRUE, FnTxt, Document(TRUE, LnVillageA)),
     GoodForm(TRUE, FnPdf, Document(TRUE, LnTotalArea)),
     GoodForm(TRUE, FnPdf, Document(FALSE, <<>>)),
     GoodForm(TRUE, FnDocx, Document(TRUE, LnRavi)),
     GoodForm(TRUE, FnDocx, Document(FALSE, <<>>)),
     GoodForm(TRUE, FnExe, Document(TRUE, LnRavi)),
     GoodForm(TRUE, FnDots, Document(TRUE, LnRavi)),
     GoodForm(TRUE, FnBare, Document(TRUE, LnRavi)),
     GoodForm(TRUE, <<>>, Document(TRUE, <<>>)),
     GoodForm(FALSE, <<>>, Document(TRUE, <<>>)),
     Request("POST", <<" ">>, ValSabha, ValType, TRUE, FnTxt, Document(TRUE, LnRavi)),
     Request("POST", ValName, <<>>, ValType, TRUE, FnTxt, Document(TRUE, LnRavi)),
     Request("POST", ValName, ValSabha, <<>>, TRUE, FnTxt, Document(TRUE, LnRavi)),
     Request("OPTIONS", <<>>, <<>>, <<>>, FALSE, <<>>, Document(TRUE, <<>>))}

\* the names a file can be saved under
SavedNames ==
    {secure_filename(r.filename) : r \in Requests}

Uploaders ==
    1..MaxUploads

NoResponse ==
    [success |-> FALSE, status |-> 0]

IdleThread ==
    [at |-> "idle", form_fields |-> <<>>, failed |-> FALSE, text |-> <<>>,
     parsed |-> <<>>, file_exists |-> FALSE, buffer |-> <<>>,
     response |-> NoResponse]

(***************************************************************************)
(* parse_key_values, step by step.                                         *)
(***************************************************************************)
\* parse_key_values: its argument, its locals and its position
VARIABLES text, lines, pairs, pc, i

\* the service: the imported modules (lines 9-12, 45), the upload
\* directory, the CSV file and its rows, the request threads, and the last
\* answer of /view_database
VARIABLES pdfplumber, docx, uploads, csv_exists, csv_rows, threads, view

parserVars == <<text, lines, pairs, pc, i>>

serverVars == <<pdfplumber, docx, uploads, csv_exists, csv_rows, threads, view>>

vars == <<parserVars, serverVars>>

\* the service before any request
ServerStart ==
    /\ uploads = [n \in SavedNames |-> [present |-> FALSE, doc |-> Document(TRUE, <<>>)]]
    /\ csv_exists = FALSE
    /\ csv_rows = <<>>
    /\ threads = [t \in Uploaders |-> IdleThread]
    /\ view = [success |-> FALSE, status |-> 0, count |-> 0]

Init ==
    /\ text \in Texts
    /\ lines = <<>>
    /\ pairs = <<>>
    /\ pc = "split"
    /\ i = 0
    /\ pdfplumber = TRUE
    /\ docx = TRUE
    /\ ServerStart

\* line 67
SplitText ==
    /\ pc = "split"
    /\ lines' = StripLines(splitlines(text))
    /\ pc' = "pass1"
    /\ i' = 1
    /\ UNCHANGED <<text, pairs>>
    /\ UNCHANGED serverVars

\* lines 71-76, one line
Pass1Step ==
    /\ pc = "pass1"
    /\ i <= Len(lines)
    /\ pairs' = pass1_line(pairs, lines[i])
    /\ i' = i + 1
    /\ UNCHANGED <<text, lines, pc>>
    /\ UNCHANGED serverVars

Pass1End ==
    /\ pc = "pass1"
    /\ i > Len(lines)
    /\ pc' = "pass2"
    /\ i' = 1
    /\ UNCHANGED <<text, lines, pairs>>
    /\ UNCHANGED serverVars

\* lines 79-96, one line; an exception leaves parse_key_values
Pass2Step ==
    /\ pc = "pass2"
    /\ i <= Len(lines)
    /\ LET r == pass2_line(pairs, lines, i)
       IN  /\ pairs' = r.pairs
           /\ pc' = IF r.raised THEN "raised" ELSE pc
    /\ i' = i + 1
    /\ UNCHANGED <<text, lines>>
    /\ UNCHANGED serverVars

Pass2End ==
    /\ pc = "pass2"
    /\ i > Len(lines)
    /\ pc' = "pass3"
    /\ UNCHANGED <<text, lines, pairs, i>>
    /\ UNCHANGED serverVars

\* lines 99-107
Pass3Step ==
    /\ pc = "pass3"
    /\ pairs' = pass3(pairs, lines)
    /\ pc' = "done"
    /\ UNCHANGED <<text, lines, i>>
    /\ UNCHANGED serverVars

Next ==
    \/ SplitText
    \/ Pass1Step
    \/ Pass1End
    \/ Pass2Step
    \/ Pass2End
    \/ Pass3Step

Spec ==
    Init /\ [][Next]_vars

(***************************************************************************)
(* The service, one request per thread.                                    *)
(***************************************************************************)
ServerInit ==
    /\ text = <<>>
    /\ lines = <<>>
    /\ pairs = <<>>
    /\ pc = "off"
    /\ i = 0
    /\ pdfplumber \in BOOLEAN
    /\ docx \in BOOLEAN
    /\ ServerStart

\* upload, lines 141-174: the request is answered by a check, or its file
\* is saved under the secured name
UploadBegin(t, r) ==
    /\ threads[t].at = "idle"
    /\ LET v == validate(r)
           filename == secure_filename(r.filename)
       IN  IF v.status # 0
           THEN /\ threads' = [threads EXCEPT ![t].at = "done", ![t].response = v]
                /\ UNCHANGED uploads
           ELSE /\ uploads' = [uploads EXCEPT ![filename] =
                                   [present |-> TRUE, doc |-> r.doc]]
                /\ threads' = [threads EXCEPT
                       ![t].at = "saved",
                       ![t].form_fields =
                           [claimant_name |-> Strip(r.claimant_name),
                            gram_sabha_id |-> Strip(r.gram_sabha_id),
                            claim_type    |-> Strip(r.claim_type),
                            filename      |-> filename]]
    /\ UNCHANGED <<parserVars, pdfplumber, docx, csv_exists, csv_rows, view>>

\* upload, lines 177-178: the saved file is read back and parsed; an
\* exception of parse_key_values ends in the handler of line 196
UploadParse(t) ==
    /\ threads[t].at = "saved"
    /\ LET filename == threads[t].form_fields.filename
           x == extract_text_from_file(uploads[filename].doc, filename,
                                       pdfplumber, docx)
           p == parse_key_values(x.text)
       IN  threads' = IF p.raised
                      THEN [threads EXCEPT ![t].at = "done",
                                           ![t].response = Response(FALSE, 500)]
                      ELSE [threads EXCEPT ![t].at = "exists",
                                           ![t].failed = x.failed,
                                           ![t].text = x.text,
                                           ![t].parsed = p.pairs]
    /\ UNCHANGED <<parserVars, pdfplumber, docx, uploads, csv_exists, csv_rows, view>>

\* append_to_csv, line 111
CsvExists(t) ==
    /\ threads[t].at = "exists"
    /\ threads' = [threads EXCEPT ![t].at = "open",
                                  ![t].file_exists = csv_exists]
    /\ UNCHANGED <<parserVars, pdfplumber, docx, uploads, csv_exists, csv_rows, view>>

\* append_to_csv, lines 113-123: open(CSV_FILE, 'a') creates the file; the
\* rows go to the buffer of the file object
CsvOpen(t) ==
    /\ threads[t].at = "open"
    /\ csv_exists' = TRUE
    /\ threads' = [threads EXCEPT
           ![t].at = "close",
           ![t].buffer = rows_to_write(threads[t].file_exists,
                                       threads[t].form_fields,
                                       threads[t].parsed)]
    /\ UNCHANGED <<parserVars, pdfplumber, docx, uploads, csv_rows, view>>

\* append_to_csv, lines 124-126, and upload, lines 196-198: open raises
CsvOpenFails(t) ==
    /\ threads[t].at = "open"
    /\ threads' = [threads EXCEPT ![t].at = "done",
                                  ![t].response = Response(FALSE, 500)]
    /\ UNCHANGED <<parserVars, pdfplumber, docx, uploads, csv_exists, csv_rows, view>>

\* the end of the with block: the buffer is appended to the file; then
\* upload, lines 189-194
CsvClose(t) ==
    /\ threads[t].at = "close"
    /\ csv_rows' = csv_rows \o threads[t].buffer
    /\ threads' = [threads EXCEPT ![t].at = "done",
                                  ![t].response = Response(TRUE, 200)]
    /\ UNCHANGED <<parserVars, pdfplumber, docx, uploads, csv_exists, view>>

\* view_database, lines 206-220
ViewDatabase ==
    /\ view' = view_database(csv_exists, csv_rows)
    /\ UNCHANGED <<parserVars, pdfplumber, docx, uploads, csv_exists, csv_rows, threads>>

ServerNext ==
    \/ \E t \in Uploaders : \E r \in Requests : UploadBegin(t, r)
    \/ \E t \in Uploaders : UploadParse(t)
    \/ \E t \in Uploaders : CsvExists(t)
    \/ \E t \in Uploaders : CsvOpen(t)
    \/ \E t \in Uploaders : CsvOpenFails(t)
    \/ \E t \in Uploaders : CsvClose(t)
    \/ ViewDatabase

ServerSpec ==
    ServerInit /\ [][ServerNext]_vars

(***************************************************************************)
(* Properties of parse_key_values.                                         *)
(***************************************************************************)
\* a line pass 2 treats as a heading: its length is in (3, 120) and its
\* lower-case form contains a phrase of the heading dictionary
IsHeadingLine(ln) ==
    /\ Len(ln) > HEADING_MIN
    /\ Len(ln) < HEADING_MAX
    /\ \E h \in Range(headings) : Contains(Lower(ln), h)

\* the lines among n+1..n+5 of the trimmed sequence with a length in (0, 200)
Candidates(n) ==
    {j \in (n + 1)..(n + LOOKAHEAD) :
        j <= Len(lines) /\ Len(lines[j]) > 0 /\ Len(lines[j]) < CAND_MAX}

\* the line starts with n key characters followed directly by a separator
\* and a non-empty rest
KeyCandidate(ln, n) ==
    /\ n + 1 < Len(ln)
    /\ \A q \in 1..n : ln[q] \in KeyClass
    /\ ln[n + 1] \in Separators

\* some entry of d has a key and a value cut from line ln
EntryFrom(d, ln) ==
    \E n \in DOMAIN d : \E m \in 1..KEY_MAX : \E q \in (m + 2)..Len(ln) :
        /\ d[n].k = Strip(SubSeq(ln, 1, m))
        /\ d[n].v = Strip(SubSeq(ln, q, Len(ln)))

\* C2: pass 3 contributes only when passes 1 and 2 left the map empty: with
\* at least one entry in the map, the pass-3 step writes nothing (no 'misc'
\* entry), whatever keyword lines the text holds.
C2_FallbackGated ==
    [][(pc = "pass3" /\ pairs # <<>>) => pairs' = pairs]_vars

C2_Witness ==
    /\ pc = "done"
    /\ pairs # <<>>
    /\ \E n \in DOMAIN lines : keyword_search(lines[n])
    /\ MiscKey \notin DictKeys(pairs)

\* the premises of C3: no ':' or '-' anywhere, the line "Total area claimed
\* is 2.5 hectares" is present and no other line holds a heading phrase or
\* a fallback keyword
C3_Premise ==
    /\ \A p \in DOMAIN text : text[p] \notin Separators
    /\ \E n \in DOMAIN lines : lines[n] = LnTotalArea
    /\ \A n \in DOMAIN lines :
           (keyword_search(lines[n])
               \/ \E h \in Range(headings) : Contains(Lower(lines[n]), h))
           => lines[n] = LnTotalArea

\* C3 as stated: under C3_Premise the result is exactly
\* {"misc": "Total area claimed is 2.5 hectares"}, whatever plain lines
\* precede or follow the line.
C3_AsStated ==
    (pc = "done" /\ C3_Premise)
        => pairs = <<[k |-> MiscKey, v |-> LnTotalArea]>>

\* the line occurs once, among the first 200 lines, and none of the (up to
\* five) lines after it has fewer than 200 characters
C3_NoCandidate ==
    \E n \in DOMAIN lines :
        /\ lines[n] = LnTotalArea
        /\ n <= MISC_LIMIT
        /\ \A m \in DOMAIN lines : lines[m] = LnTotalArea => m = n
        /\ \A j \in (n + 1)..(n + LOOKAHEAD) :
               j <= Len(lines) => Len(lines[j]) >= CAND_MAX

\* C3, amended: under C3_Premise, when the line occurs once, among the first
\* 200 lines, and each of the up to five lines after it has 200 or more
\* characters (as when it is the last line), the result is exactly
\* {"misc": "Total area claimed is 2.5 hectares"}.
C3_FallbackOnly ==
    (pc = "done" /\ C3_Premise /\ C3_NoCandidate)
        => pairs = <<[k |-> MiscKey, v |-> LnTotalArea]>>

C3_Witness ==
    /\ pc = "done"
    /\ C3_Premise
    /\ C3_NoCandidate
    /\ Len(lines) >= 2
    /\ pairs = <<[k |-> MiscKey, v |-> LnTotalArea]>>

\* C4 as stated, on the lines of the input text: a heading line followed by
\* five lines that are each blank or of 200 or more characters is no key of
\* the result.
C4_AsStated ==
    pc = "done" =>
        LET raw == splitlines(text)
        IN  \A r \in DOMAIN raw :
                (/\ IsHeadingLine(Strip(raw[r]))
                 /\ r + LOOKAHEAD <= Len(raw)
                 /\ \A q \in (r + 1)..(r + LOOKAHEAD) :
                        Strip(raw[q]) = <<>> \/ Len(Strip(raw[q])) >= CAND_MAX)
                => Strip(raw[r]) \notin DictKeys(pairs)

\* C4, amended: counting in the trimmed non-empty line sequence (blank lines
\* are dropped before the lookahead), when each of the up to five lines
\* after heading line i has 200 or more characters, the pass-2 step of line
\* i writes nothing, whatever comes after those lines.
C4_LookaheadBound ==
    [][(/\ pc = "pass2"
        /\ i <= Len(lines)
        /\ IsHeadingLine(lines[i])
        /\ \A j \in (i + 1)..(i + LOOKAHEAD) :
               j <= Len(lines) => Len(lines[j]) >= CAND_MAX)
       => pairs' = pairs]_vars

C4_Witness ==
    /\ pc = "done"
    /\ Len(lines) >= LOOKAHEAD + 2
    /\ IsHeadingLine(lines[1])
    /\ \A j \in 2..(LOOKAHEAD + 1) : Len(lines[j]) >= CAND_MAX
    /\ Len(lines[LOOKAHEAD + 2]) < CAND_MAX
    /\ lines[1] \notin DictKeys(pairs)

\* C5: the pass-2 step of line i writes at most one entry: for a heading
\* line with a candidate, key = the whole line i and value = the first line
\* among i+1..i+5 (within the list) with a length in (0, 200); otherwise
\* nothing. The further matching headings of the same line change nothing,
\* and the list holds no blank line to count toward the five.
C5_HeadingLookahead ==
    [][(pc = "pass2" /\ i <= Len(lines)) =>
         /\ \A n \in DOMAIN lines : lines[n] # <<>>
         /\ pairs' = IF IsHeadingLine(lines[i]) /\ Candidates(i) # {}
                     THEN DictSet(pairs, lines[i], lines[SetMin(Candidates(i))])
                     ELSE pairs]_vars

\* the text "Name of the claimant(s)\n\nRavi Kumar Bhuyan\nother"
C5_Witness ==
    /\ pc = "done"
    /\ text = join(<<"\n">>, <<LnNameClaimant, <<>>, LnRavi, LnOther>>)
    /\ pairs = <<[k |-> LnNameClaimant, v |-> LnRavi]>>

\* C6: after pass 1, the value of every key is the trimmed value of the last
\* line that matches with that trimmed key, and every matching line's key is
\* present ("Village: A" then "Village: B" gives Village -> B).
C6_LastWins ==
    (pc = "pass2" /\ i = 1) =>
        /\ \A n \in DOMAIN lines :
               kv_re(lines[n]).ok => Strip(kv_re(lines[n]).g1) \in DictKeys(pairs)
        /\ \A key \in DictKeys(pairs) :
               LET ms == {n \in DOMAIN lines :
                             kv_re(lines[n]).ok /\ Strip(kv_re(lines[n]).g1) = key}
               IN  /\ ms # {}
                   /\ DictGet(pairs, key) = Strip(kv_re(lines[SetMax(ms)]).g2)
        /\ lines = <<LnVillageA, LnVillageB>>
               => pairs = <<[k |-> LnVillage, v |-> StrB]>>

C6_Witness ==
    /\ pc = "pass2"
    /\ i = 1
    /\ lines = <<LnVillageA, LnVillageB>>
    /\ pairs = <<[k |-> LnVillage, v |-> StrB]>>

\* C7 as stated: a line with a key candidate of 80 characters produces a
\* pass-1 entry; a line with a key candidate of 81 characters produces none,
\* for every choice of allowed key characters.
C7_AsStated ==
    [][(pc = "pass1" /\ i <= Len(lines)) =>
         /\ KeyCandidate(lines[i], KEY_MAX) => EntryFrom(pairs', lines[i])
         /\ KeyCandidate(lines[i], KEY_MAX + 1) => pairs' = pairs]_vars

\* an 81-character key candidate with no '-' after its second character
\* and no whitespace as its last character
C7_NoEarlierSeparator(ln) ==
    /\ \A q \in 3..(KEY_MAX + 1) : ln[q] # "-"
    /\ ln[KEY_MAX + 1] \notin Whitespace

\* C7, amended: a line with a key candidate of 80 characters produces a
\* pass-1 entry; a line with a key candidate of 81 characters that holds no
\* '-' after its second character and does not end in whitespace produces
\* none.
C7_KeyLengthBoundary ==
    [][(pc = "pass1" /\ i <= Len(lines)) =>
         /\ KeyCandidate(lines[i], KEY_MAX) => EntryFrom(pairs', lines[i])
         /\ (KeyCandidate(lines[i], KEY_MAX + 1)
                /\ C7_NoEarlierSeparator(lines[i]))
            => pairs' = pairs]_vars

C7_Witness ==
    /\ pc = "done"
    /\ lines = <<Filler(KEY_MAX + 1) \o <<":", "v">> >>
    /\ pairs = <<>>

\* no pass finds anything in the lines
NothingFound ==
    /\ \A n \in DOMAIN lines : ~kv_re(lines[n]).ok
    /\ \A n \in DOMAIN lines : ~(IsHeadingLine(lines[n]) /\ Candidates(n) # {})
    /\ \A n \in DOMAIN lines : n <= MISC_LIMIT => ~keyword_search(lines[n])

\* a step of parse_key_values is enabled: the guards of SplitText, of
\* Pass1Step or Pass1End, of Pass2Step or Pass2End, of Pass3Step
Running ==
    \/ pc = "split"
    \/ pc \in {"pass1", "pass2"} /\ i \in 1..(Len(lines) + 1)
    \/ pc = "pass3"

\* C8: parse_key_values never raises and is never stuck before its return,
\* for every text (empty, blank, without any pattern, a heading with fewer
\* than five lines after it); the map is empty when no pass finds anything.
C8_Total ==
    /\ pc # "raised"
    /\ pc = "done" \/ Running
    /\ (pc = "done" /\ NothingFound) => pairs = <<>>

C8_Witness ==
    /\ pc = "done"
    /\ Len(lines) >= 2
    /\ IsHeadingLine(lines[Len(lines)])
    /\ pairs = <<>>

\* C9: after pass 2, a key equal to a heading line that has a candidate
\* holds the pass-2 value (of the last such line); every other key holds
\* the value pass 1 gave it; no pass-1 key is lost ("Village: A", "Village",
\* "Ravi Kumar Bhuyan" gives Village -> Ravi Kumar Bhuyan).
C9_Pass2Overlays ==
    pc = "pass3" =>
        /\ \A n \in DOMAIN lines :
               kv_re(lines[n]).ok => Strip(kv_re(lines[n]).g1) \in DictKeys(pairs)
        /\ \A key \in DictKeys(pairs) :
               LET hs == {n \in DOMAIN lines :
                             /\ lines[n] = key
                             /\ IsHeadingLine(lines[n])
                             /\ Candidates(n) # {}}
                   ms == {n \in DOMAIN lines :
                             kv_re(lines[n]).ok /\ Strip(kv_re(lines[n]).g1) = key}
               IN  IF hs # {}
                   THEN DictGet(pairs, key) = lines[SetMin(Candidates(SetMax(hs)))]
                   ELSE /\ ms # {}
                        /\ DictGet(pairs, key) = Strip(kv_re(lines[SetMax(ms)]).g2)
        /\ lines = <<LnVillageA, LnVillage, LnRavi>>
               => /\ DictGet(pairs, LnVillage) = LnRavi
                  /\ DictGet(pairs, LnVillageA) = LnVillage

C9_Witness ==
    /\ pc = "pass3"
    /\ lines = <<LnVillageA, LnVillage, LnRavi>>
    /\ DictGet(pairs, LnVillage) = LnRavi

(***************************************************************************)
(* Properties of the service.                                              *)
(***************************************************************************)
\* the data rows of the CSV file
DataRows ==
    {n \in DOMAIN csv_rows : ~csv_rows[n].header}

\* the threads whose upload was answered with success
Succeeded ==
    {t \in Uploaders : /\ threads[t].at = "done"
                       /\ threads[t].response = Response(TRUE, 200)
                       /\ threads[t].buffer # <<>>}

\* C1: when extract_text_from_file fails, the upload is answered with a
\* failure (success=false, not 200), parse_key_values is not run on the
\* error message, and no row derived from it reaches the CSV file.
C1_AsStated ==
    /\ \A t \in Uploaders :
           threads[t].failed =>
               /\ threads[t].parsed = <<>>
               /\ threads[t].at = "done" =>
                      (~threads[t].response.success
                          /\ threads[t].response.status # 200)
    /\ \A n \in DataRows : ErrKey \notin DictKeys(csv_rows[n].cells[4])

\* C10: the CSV file holds the header row exactly once, as its first row,
\* and, when no request is in progress, one data row per successful
\* upload, also when requests are handled concurrently.
C10_AsStated ==
    /\ csv_rows # <<>> =>
           /\ csv_rows[1].header
           /\ \A n \in 2..Len(csv_rows) : ~csv_rows[n].header
    /\ (\A t \in Uploaders : threads[t].at \in {"idle", "done"}) =>
           Cardinality(DataRows) = Cardinality(Succeeded)

====
